---- MODULE Spec2Model ----
(***************************************************************************)
(* Vehicle_counter_project: the counting back end (backend.py) and the     *)
(* dashboard's location writer (app.py).                                   *)
(*                                                                         *)
(* The back end is one control loop: read a frame, skip all but every      *)
(* FRAME_SKIP-th one, poll the location file when its timer is due, run    *)
(* the tracker, and for every tracked box test whether its centroid moved  *)
(* across the counting line; a crossing of an id not counted before is     *)
(* written to the database and to the CSV file.  The dashboard rewrites    *)
(* the location file from its own process.                                 *)
(***************************************************************************)
EXTENDS Integers, Sequences, FiniteSets, TLC

VARIABLES
    pc,                 \* position of the control loop: "read", "batch", "done", "crashed"
    frame_count,        \* backend.py:106
    cap_pos,            \* read position of cap in the clip
    current_location,   \* backend.py:96
    object_memory,      \* backend.py:105, id -> last centroid (NoEntry: no key)
    counted_ids,        \* backend.py:104
    count_cars,         \* backend.py:103
    count_bikes,
    count_trucks,
    db_rows,            \* rows of table vehicles written by this process
    csv_rows,           \* data rows of the CSV file (the header row is not an event)
    attempts,           \* history: ids handed to log_vehicle_to_database, in order
    recrossed,          \* history: ids whose crossing test was true when already counted
    todo,               \* ids of the tracked boxes of this frame not yet iterated
    batch,              \* history: what held when the current frame's batch started
    location_file,      \* content of current_camera_location.txt (Missing: no file)
    writer,             \* app.py writer: "idle", or the value it is about to write
    geom,               \* inputs and results of the crossing test applied on its own
    source,             \* the frame source: "ok", or "broken" (cap.read() fails from now on)
    esc_held,           \* the operator holds ESC down: every waitKey returns 27
    scene,              \* ids of the vehicles the clip shows
    cls                 \* input and results of map_vehicle_class applied on its own

vars == <<pc, frame_count, cap_pos, current_location, object_memory, counted_ids,
          count_cars, count_bikes, count_trucks, db_rows, csv_rows, attempts,
          recrossed, todo, batch, location_file, writer, geom, source, esc_held,
          scene, cls>>

\* what the loop and the dashboard never write
env_vars == <<source, esc_held, scene, cls>>

engine_vars == <<object_memory, counted_ids, count_cars, count_bikes, count_trucks,
                 db_rows, csv_rows, attempts>>

----------------------------------------------------------------------------
(* Configuration, backend.py:11-25.  Confidences are in hundredths.        *)

LINE_START == <<100, 180>>
LINE_END == <<700, 50>>
CONFIDENCE_THRESHOLD == 30
FRAME_SKIP == 3
\* the literal of the filter at backend.py:165, in hundredths
FILTER_CONF == 25
DEFAULT_LOCATION == "Basni Crossing"

(* Bounds of the model.                                                    *)
MaxFrames == 9      \* frames read before the model stops reading
VideoLen == 4       \* frames in the clip before cap.read() reports the end
GridMax == 2        \* the crossing test on its own: points of 0..GridMax squared

\* the location ids the dashboard is asked to set: one key of app.py:13-17 that
\* is not the default, which the back end supplies by itself
LOCATIONS == {"Bhagat ki kothi crossing"}

\* ids the tracker hands out
Ids == {7, 9}
\* model.names of the boxes the tracker reports
Labels == {"car", "bus", "person"}
\* confidences of the boxes, hundredths
Confs == {20, 28, 50}
\* bounding boxes (x1, y1, x2, y2) in the resized frame
\* centroids (90,190), (110,170), (400,200) and (100,180), which is LINE_START
BBoxes == { <<80, 180, 101, 201>>, <<100, 160, 120, 180>>, <<380, 180, 420, 220>>,
            <<90, 170, 110, 190>> }

Missing == "<missing>"
NoEntry == <<>>
NoBatch == [location |-> "", rewritten |-> FALSE, csv_mark |-> 0, db_mark |-> 0]
NoGeom == [S |-> <<0, 0>>, E |-> <<0, 0>>, P |-> <<0, 0>>, Q |-> <<0, 0>>,
           state |-> "off", fwd |-> FALSE, rev |-> FALSE]
NoCls == [label |-> "", state |-> "off", once |-> "", twice |-> ""]

----------------------------------------------------------------------------
(* Pure functions                                                          *)

\* the orientation test with a non-strict comparison
ccw_nonstrict(A, B, C) == (C[2] - A[2]) * (B[1] - A[1]) >= (B[2] - A[2]) * (C[1] - A[1])

\* backend.py:115-116
ccw(A, B, C) == (C[2] - A[2]) * (B[1] - A[1]) > (B[2] - A[2]) * (C[1] - A[1])

\* only the test that prev and curr lie on different sides of the gate's line
crossed_line_sides(prev, curr, line_start, line_end) ==
    ccw(line_start, line_end, prev) # ccw(line_start, line_end, curr)

\* backend.py:114-118
crossed_line(prev, curr, line_start, line_end) ==
    /\ ccw(line_start, prev, curr) # ccw(line_end, prev, curr)
    /\ ccw(line_start, line_end, prev) # ccw(line_start, line_end, curr)

\* backend.py:160-162; the coordinates are non-negative, int() truncates
Centroid(coord) == << (coord[1] + coord[3]) \div 2, (coord[2] + coord[4]) \div 2 >>

\* the mapping with the dashboard's name for motorcycles
map_vehicle_class_bike(original_class) ==
    CASE original_class = "car" -> "car"
      [] original_class = "motorcycle" -> "bike"
      [] original_class = "truck" -> "truck"
      [] original_class = "bus" -> "bus"
      [] OTHER -> original_class

\* backend.py:81-89; the labels of the model are lower case already
map_vehicle_class(original_class) ==
    CASE original_class = "car" -> "car"
      [] original_class = "motorcycle" -> "motorcycle"
      [] original_class = "truck" -> "truck"
      [] original_class = "bus" -> "bus"
      [] OTHER -> original_class

\* backend.py:46-58; failed: the read raised
get_current_location(content, failed) ==
    IF ~failed /\ content # Missing /\ content # ""
    THEN content
    ELSE DEFAULT_LOCATION

\* backend.py:165
PassesFilter(lbl, cf) ==
    lbl \in {"car", "motorcycle", "truck", "bus"} /\ cf > FILTER_CONF

\* a fixed default instead of the current centroid
PrevCenter_origin(id, center) ==
    IF object_memory[id] = NoEntry THEN <<0, 0>> ELSE object_memory[id]

\* backend.py:170
PrevCenter(id, center) ==
    IF object_memory[id] = NoEntry THEN center ELSE object_memory[id]

\* the crossing test without the counted_ids check
ShouldCount_nodedup(id, prev_center, center) ==
    crossed_line(prev_center, center, LINE_START, LINE_END)

\* backend.py:173
ShouldCount(id, prev_center, center) ==
    crossed_line(prev_center, center, LINE_START, LINE_END) /\ id \notin counted_ids

\* the id is added only when the database took the row
CountedAfter_rollback(id, db_ok) == IF db_ok THEN counted_ids \cup {id} ELSE counted_ids

\* backend.py:174; the id is added before the sinks are called, whatever they do
CountedAfter(id, db_ok) == counted_ids \cup {id}

\* the location file read again for every event
StampLocation_reread == get_current_location(location_file, FALSE)

\* backend.py:180,184; the value stamped on the event
StampLocation == current_location

\* backend.py:140-143
PolledLocation(due, failed) ==
    IF due THEN get_current_location(location_file, failed) ELSE current_location

\* the frame counter tested before it is incremented
Admitted_before(n) == (n - 1) % FRAME_SKIP = 0

\* backend.py:135-136; n: frame_count after the increment of line 134
Admitted(n) == n % FRAME_SKIP = 0

\* the position is kept once the id is counted
MemoryAfter_frozen(id, center) ==
    IF id \in counted_ids THEN object_memory ELSE [object_memory EXCEPT ![id] = center]

\* backend.py:171
MemoryAfter(id, center) == [object_memory EXCEPT ![id] = center]

\* the row put in front of the rows written before
Record_front(rows, row) == <<row>> \o rows

\* backend.py:68-73 (INSERT) and 183-185 (writerow): the row goes after the
\* rows written before
Record(rows, row) == Append(rows, row)

Row(vehicle_type, vehicle_id, location_id) ==
    [vehicle_type |-> vehicle_type, vehicle_id |-> vehicle_id, location_id |-> location_id]

----------------------------------------------------------------------------
(* The control loop, backend.py:127-211                                    *)

\* backend.py:96-106, 121-122: the state before the first pass of the loop
StartUp ==
    /\ pc = "read"
    /\ frame_count = 0
    /\ cap_pos = 0
    /\ current_location = get_current_location(location_file, FALSE)
    /\ object_memory = [i \in Ids |-> NoEntry]
    /\ counted_ids = {}
    /\ count_cars = 0
    /\ count_bikes = 0
    /\ count_trucks = 0
    /\ db_rows = <<>>
    /\ csv_rows = <<>>
    /\ attempts = <<>>
    /\ recrossed = {}
    /\ todo = {}
    /\ batch = NoBatch
    /\ writer = "idle"

\* a source that delivers, an operator who is not holding ESC
Quiet ==
    /\ source = "ok"
    /\ esc_held = FALSE
    /\ cls = NoCls

Init ==
    /\ location_file \in {Missing} \cup LOCATIONS
    /\ StartUp
    /\ Quiet
    /\ scene = Ids
    /\ geom = NoGeom

\* backend.py:128-132
\* the clip cleared of everything the loop remembers when it restarts
EndOfStream_reset ==
    /\ pc = "read"
    /\ (source = "broken" \/ cap_pos = VideoLen)
    /\ cap_pos' = 0
    /\ object_memory' = [i \in Ids |-> NoEntry]
    /\ counted_ids' = {}
    /\ UNCHANGED <<pc, frame_count, current_location, count_cars, count_bikes,
                   count_trucks, db_rows, csv_rows, attempts, recrossed, todo,
                   batch, location_file, writer, geom, env_vars>>

\* backend.py:128-132; cap.read() fails at the end of the clip and on a source
\* that is broken
EndOfStream ==
    /\ pc = "read"
    /\ (source = "broken" \/ cap_pos = VideoLen)
    /\ cap_pos' = 0
    /\ UNCHANGED <<pc, frame_count, current_location, engine_vars, recrossed, todo,
                   batch, location_file, writer, geom, env_vars>>

\* backend.py:128-136
SkipFrame ==
    /\ pc = "read"
    /\ source = "ok"
    /\ cap_pos < VideoLen
    /\ frame_count < MaxFrames
    /\ ~Admitted(frame_count + 1)
    /\ cap_pos' = cap_pos + 1
    /\ frame_count' = frame_count + 1
    /\ UNCHANGED <<pc, current_location, engine_vars, recrossed, todo, batch,
                   location_file, writer, geom, env_vars>>

\* backend.py:128-157; due: more than 5 s since the last poll; failed: the read
\* of the location file raised; visible: the ids of the boxes the tracker returns
Admit(due, failed, visible) ==
    /\ pc = "read"
    /\ source = "ok"
    /\ cap_pos < VideoLen
    /\ frame_count < MaxFrames
    /\ Admitted(frame_count + 1)
    /\ cap_pos' = cap_pos + 1
    /\ frame_count' = frame_count + 1
    /\ current_location' = PolledLocation(due, failed)
    /\ todo' = visible
    /\ batch' = [location |-> current_location', rewritten |-> FALSE,
                 csv_mark |-> Len(csv_rows), db_mark |-> Len(db_rows)]
    /\ pc' = "batch"
    /\ UNCHANGED <<engine_vars, recrossed, location_file, writer, geom, env_vars>>

AdmitFrame ==
    \E due \in BOOLEAN, failed \in BOOLEAN, visible \in SUBSET scene :
        Admit(due, failed, visible)

\* backend.py:159-193, one iteration of the for loop over the tracked boxes;
\* db_ok: the INSERT committed; csv_ok: writerow and flush did not raise
Observe(box_id, lbl, coord, cf, db_ok, csv_ok) ==
    LET center == Centroid(coord)
        prev_center == PrevCenter(box_id, center)
        mapped_class == map_vehicle_class(lbl)
        row == Row(mapped_class, box_id, StampLocation)
    IN  /\ pc = "batch"
        /\ box_id \in todo
        /\ todo' = todo \ {box_id}
        /\ recrossed' = IF /\ PassesFilter(lbl, cf)
                           /\ crossed_line(prev_center, center, LINE_START, LINE_END)
                           /\ box_id \in counted_ids
                        THEN recrossed \cup {box_id}
                        ELSE recrossed
        /\ IF ~PassesFilter(lbl, cf)
           THEN /\ UNCHANGED engine_vars
                /\ pc' = pc
           ELSE /\ object_memory' = MemoryAfter(box_id, center)
                /\ IF ~ShouldCount(box_id, prev_center, center)
                   THEN /\ UNCHANGED <<counted_ids, count_cars, count_bikes,
                                       count_trucks, db_rows, csv_rows, attempts>>
                        /\ pc' = pc
                   ELSE /\ counted_ids' = CountedAfter(box_id, db_ok)
                        /\ attempts' = Append(attempts, box_id)
                        /\ db_rows' = IF db_ok THEN Record(db_rows, row) ELSE db_rows
                        /\ IF csv_ok
                           THEN /\ csv_rows' = Record(csv_rows, row)
                                /\ count_cars' = count_cars + (IF lbl = "car" THEN 1 ELSE 0)
                                /\ count_bikes' = count_bikes + (IF lbl = "motorcycle" THEN 1 ELSE 0)
                                /\ count_trucks' = count_trucks + (IF lbl = "truck" THEN 1 ELSE 0)
                                /\ pc' = pc
                           ELSE \* writerow raised: nothing catches it
                                /\ UNCHANGED <<csv_rows, count_cars, count_bikes, count_trucks>>
                                /\ pc' = "crashed"
        /\ UNCHANGED <<frame_count, cap_pos, current_location, batch, location_file,
                       writer, geom, env_vars>>

\* the sinks are called, and can fail, only where the iteration reaches them
SinkOutcomes(box_id, lbl, coord, cf) ==
    IF /\ PassesFilter(lbl, cf)
       /\ ShouldCount(box_id, PrevCenter(box_id, Centroid(coord)), Centroid(coord))
    THEN BOOLEAN
    ELSE {TRUE}

ProcessObservation ==
    \E box_id \in todo, lbl \in Labels, coord \in BBoxes, cf \in Confs :
        \E db_ok \in SinkOutcomes(box_id, lbl, coord, cf),
           csv_ok \in SinkOutcomes(box_id, lbl, coord, cf) :
            Observe(box_id, lbl, coord, cf, db_ok, csv_ok)

\* backend.py:210; what waitKey(1) & 0xFF == 27 can give
EscPolled == IF esc_held THEN {TRUE} ELSE BOOLEAN

\* backend.py:195-216; esc: waitKey returned 27
EndBatch ==
    /\ pc = "batch"
    /\ todo = {}
    /\ \E esc \in EscPolled : pc' = IF esc THEN "done" ELSE "read"
    /\ batch' = NoBatch
    /\ UNCHANGED <<frame_count, cap_pos, current_location, engine_vars, recrossed, todo,
                   location_file, writer, geom, env_vars>>

----------------------------------------------------------------------------
(* The dashboard's writer, app.py:42-48: open(..., 'w') truncates the file, *)
(* f.write puts the value.  The model follows it while the back end runs.  *)

\* history: a write to the file while a batch is being processed
BatchSeesWrite ==
    IF pc = "batch" THEN [batch EXCEPT !.rewritten = TRUE] ELSE batch

WriterOpen ==
    /\ pc \in {"read", "batch"}
    /\ writer = "idle"
    /\ \E location_id \in LOCATIONS : writer' = location_id
    /\ location_file' = ""
    /\ batch' = BatchSeesWrite
    /\ UNCHANGED <<pc, frame_count, cap_pos, current_location, engine_vars, recrossed, todo, geom, env_vars>>

WriterWrite ==
    /\ pc \in {"read", "batch"}
    /\ writer # "idle"
    /\ location_file' = writer
    /\ writer' = "idle"
    /\ batch' = BatchSeesWrite
    /\ UNCHANGED <<pc, frame_count, cap_pos, current_location, engine_vars, recrossed, todo, geom, env_vars>>

Next ==
    \/ EndOfStream
    \/ SkipFrame
    \/ AdmitFrame
    \/ ProcessObservation
    \/ EndBatch
    \/ WriterOpen
    \/ WriterWrite

Spec == Init /\ [][Next]_vars

----------------------------------------------------------------------------
(* The crossing test on its own: crossed_line applied to every gate (S, E)  *)
(* and displacement (P, Q) of a small grid, in both directions of travel.   *)

Grid == (0..GridMax) \X (0..GridMax)

InitGeom ==
    /\ location_file = Missing
    /\ StartUp
    /\ Quiet
    /\ scene = Ids
    /\ geom \in [S : Grid, E : Grid, P : Grid, Q : Grid, state : {"input"},
                  fwd : {FALSE}, rev : {FALSE}]

CrossingTest ==
    /\ geom.state = "input"
    /\ geom' = [geom EXCEPT !.state = "done",
                            !.fwd = crossed_line(geom.P, geom.Q, geom.S, geom.E),
                            !.rev = crossed_line(geom.Q, geom.P, geom.S, geom.E)]
    /\ UNCHANGED <<pc, frame_count, cap_pos, current_location, engine_vars, recrossed,
                   todo, batch, location_file, writer, env_vars>>

NextGeom == CrossingTest

SpecGeom == InitGeom /\ [][NextGeom]_vars

----------------------------------------------------------------------------
(* Scenario 1: the loop from the state in which id 7 was seen once, at      *)
(* (90,190), in the first processed frame, and the second processed frame   *)
(* has just been admitted with id 7 among its boxes.                        *)

InitScenario1 ==
    /\ location_file \in {Missing} \cup LOCATIONS
    /\ current_location = get_current_location(location_file, FALSE)
    /\ pc = "batch"
    /\ frame_count = 2 * FRAME_SKIP
    /\ cap_pos = ((frame_count - 1) % VideoLen) + 1
    /\ object_memory = [i \in Ids |-> IF i = 7 THEN <<90, 190>> ELSE NoEntry]
    /\ counted_ids = {}
    /\ count_cars = 0
    /\ count_bikes = 0
    /\ count_trucks = 0
    /\ db_rows = <<>>
    /\ csv_rows = <<>>
    /\ attempts = <<>>
    /\ recrossed = {}
    /\ todo \in {{7}, {7, 9}}
    /\ batch = [location |-> current_location, rewritten |-> FALSE,
                csv_mark |-> 0, db_mark |-> 0]
    /\ writer = "idle"
    /\ geom = NoGeom
    /\ Quiet
    /\ scene = Ids

SpecScenario1 == InitScenario1 /\ [][Next]_vars

----------------------------------------------------------------------------
(* The loop with its surroundings: a frame source that can break for good   *)
(* and an operator who presses ESC and keeps it pressed.  The clip shows    *)
(* one vehicle.  The loop is one sequential thread that always takes its    *)
(* next step, which is the fairness of SpecEnv.                             *)

InitEnv ==
    /\ location_file \in {Missing} \cup LOCATIONS
    /\ StartUp
    /\ Quiet
    /\ scene = {7}
    /\ geom = NoGeom

\* backend.py:128: from now on cap.read() returns ret = False, also after
\* cap.set(cv2.CAP_PROP_POS_FRAMES, 0)
SourceFails ==
    /\ pc \in {"read", "batch"}
    /\ source = "ok"
    /\ source' = "broken"
    /\ UNCHANGED <<pc, frame_count, cap_pos, current_location, engine_vars, recrossed,
                   todo, batch, location_file, writer, geom, esc_held, scene, cls>>

\* backend.py:210: the operator presses ESC and holds it
EscPressed ==
    /\ pc \in {"read", "batch"}
    /\ ~esc_held
    /\ esc_held' = TRUE
    /\ UNCHANGED <<pc, frame_count, cap_pos, current_location, engine_vars, recrossed,
                   todo, batch, location_file, writer, geom, source, scene, cls>>

\* the steps of the while loop, backend.py:127-211
Loop ==
    \/ EndOfStream
    \/ SkipFrame
    \/ AdmitFrame
    \/ ProcessObservation
    \/ EndBatch

NextEnv ==
    \/ Next
    \/ SourceFails
    \/ EscPressed

SpecEnv == InitEnv /\ [][NextEnv]_vars /\ WF_vars(Loop)

----------------------------------------------------------------------------
(* map_vehicle_class on its own, applied once and twice to every class name *)
(* of the detector (model.names of the COCO-trained YOLOv8 weights).        *)

ModelNames ==
    { "person", "bicycle", "car", "motorcycle", "airplane", "bus", "train", "truck",
      "boat", "traffic light", "fire hydrant", "stop sign", "parking meter", "bench",
      "bird", "cat", "dog", "horse", "sheep", "cow", "elephant", "bear", "zebra",
      "giraffe", "backpack", "umbrella", "handbag", "tie", "suitcase", "frisbee",
      "skis", "snowboard", "sports ball", "kite", "baseball bat", "baseball glove",
      "skateboard", "surfboard", "tennis racket", "bottle", "wine glass", "cup",
      "fork", "knife", "spoon", "bowl", "banana", "apple", "sandwich", "orange",
      "broccoli", "carrot", "hot dog", "pizza", "donut", "cake", "chair", "couch",
      "potted plant", "bed", "dining table", "toilet", "tv", "laptop", "mouse",
      "remote", "keyboard", "cell phone", "microwave", "oven", "toaster", "sink",
      "refrigerator", "book", "clock", "vase", "scissors", "teddy bear",
      "hair drier", "toothbrush" }

InitMap ==
    /\ location_file = Missing
    /\ StartUp
    /\ source = "ok"
    /\ esc_held = FALSE
    /\ scene = Ids
    /\ geom = NoGeom
    /\ cls \in [label : ModelNames, state : {"input"}, once : {""}, twice : {""}]

MapClass ==
    /\ cls.state = "input"
    /\ cls' = [cls EXCEPT !.state = "done",
                          !.once = map_vehicle_class(cls.label),
                          !.twice = map_vehicle_class(map_vehicle_class(cls.label))]
    /\ UNCHANGED <<pc, frame_count, cap_pos, current_location, engine_vars, recrossed,
                   todo, batch, location_file, writer, geom, source, esc_held, scene>>

NextMap == MapClass

SpecMap == InitMap /\ [][NextMap]_vars

----------------------------------------------------------------------------
(* Properties                                                              *)

RECOGNIZED == {"car", "motorcycle", "truck", "bus"}

\* the rows of a sink that carry an id
RowsOf(rows, id) == {i \in 1..Len(rows) : rows[i].vehicle_id = id}
AttemptsOf(id) == {i \in 1..Len(attempts) : attempts[i] = id}

\* C1: whatever frames are processed, the database and the CSV file each hold
\* at most one row carrying a given object id.
C1_AtMostOnce ==
    \A id \in Ids :
        /\ Cardinality(RowsOf(db_rows, id)) <= 1
        /\ Cardinality(RowsOf(csv_rows, id)) <= 1

\* an id with its single row whose displacement crossed the line again after
\* it was counted, in a run that went past the end of the clip
C1_Witness ==
    \E id \in recrossed :
        /\ Cardinality(RowsOf(csv_rows, id)) = 1
        /\ Cardinality(RowsOf(db_rows, id)) = 1
        /\ frame_count > VideoLen

\* C2: the iteration that finds no object_memory entry for the id of a box that
\* passes the filter records nothing: it sets object_memory[id] to the box's
\* centroid and leaves counted_ids, the counters and both sinks as they were.
C2_NoFirstSightEvent ==
    [][\A box_id \in Ids :
          (object_memory[box_id] = NoEntry /\ object_memory'[box_id] # NoEntry)
          => \A lbl \in Labels, coord \in BBoxes, cf \in Confs,
                db_ok \in BOOLEAN, csv_ok \in BOOLEAN :
                (PassesFilter(lbl, cf) /\ Observe(box_id, lbl, coord, cf, db_ok, csv_ok))
                => /\ object_memory' = [object_memory EXCEPT ![box_id] = Centroid(coord)]
                   /\ UNCHANGED <<counted_ids, count_cars, count_bikes, count_trucks,
                                  db_rows, csv_rows, attempts>>]_vars

\* id 7 seen for the first time exactly on LINE_START, in the first processed
\* frame, and nothing recorded
C2_Witness ==
    /\ frame_count = FRAME_SKIP
    /\ pc = "batch"
    /\ object_memory[7] = LINE_START
    /\ attempts = <<>>
    /\ counted_ids = {}

\* C3: an id whose event was handed to the sinks and did not reach the database
\* or the CSV file is in counted_ids and was handed to the sinks exactly once.
C3_SinkFailureKeepsDedup ==
    \A id \in Ids :
        ( /\ AttemptsOf(id) # {}
          /\ (RowsOf(db_rows, id) = {} \/ RowsOf(csv_rows, id) = {}) )
        => /\ id \in counted_ids
           /\ Cardinality(AttemptsOf(id)) = 1

\* the INSERT of an id's event failed, the id crossed the line again later, and
\* the sinks were still called once for it
C3_Witness ==
    \E id \in recrossed :
        /\ RowsOf(db_rows, id) = {}
        /\ Cardinality(AttemptsOf(id)) = 1
        /\ id \in counted_ids

\* C4: a due poll that fails, finds no file or reads empty content leaves
\* current_location as it was.
C4_BadReadKeepsLocation ==
    [][\A due \in BOOLEAN, failed \in BOOLEAN, visible \in SUBSET Ids :
          ( /\ Admit(due, failed, visible)
            /\ due
            /\ (failed \/ location_file = Missing \/ location_file = "") )
          => current_location' = current_location]_vars

\* C5: for a gate S # E and a displacement P # Q the crossing test gives the
\* same answer for P -> Q and for Q -> P.
C5_Symmetry ==
    (geom.state = "done" /\ geom.S # geom.E /\ geom.P # geom.Q)
    => geom.fwd = geom.rev

\* twice the signed area of the triangle A B C
Area2(A, B, C) == (B[1] - A[1]) * (C[2] - A[2]) - (B[2] - A[2]) * (C[1] - A[1])
Min(a, b) == IF a <= b THEN a ELSE b
Max(a, b) == IF a >= b THEN a ELSE b
\* C lies on the closed segment A B
OnSegment(A, B, C) ==
    /\ Area2(A, B, C) = 0
    /\ Min(A[1], B[1]) <= C[1] /\ C[1] <= Max(A[1], B[1])
    /\ Min(A[2], B[2]) <= C[2] /\ C[2] <= Max(A[2], B[2])
\* an end point of one segment lies on the other segment
Touching(S, E, P, Q) ==
    \/ OnSegment(S, E, P)
    \/ OnSegment(S, E, Q)
    \/ OnSegment(P, Q, S)
    \/ OnSegment(P, Q, E)

\* C6: the crossing test is false whenever prev or curr lies on the gate segment
\* or the displacement passes through the gate's start or end point.
C6_TiesAreNoCrossing ==
    (geom.state = "done" /\ geom.S # geom.E /\ Touching(geom.S, geom.E, geom.P, geom.Q))
    => ~geom.fwd

\* C7: with the gate ((100,180),(700,50)), the iteration for id 7, not counted,
\* remembered at (90,190) and now at (110,170) with a recognized label, finds the
\* crossing test true, adds 7 to counted_ids and hands one event to the sinks,
\* whose vehicle_type is map_vehicle_class of the box's label.
C7_Scenario1 ==
    [][(object_memory[7] = <<90, 190>> /\ 7 \notin counted_ids /\ 7 \in todo)
       => \A lbl \in Labels, coord \in BBoxes, cf \in Confs,
             db_ok \in BOOLEAN, csv_ok \in BOOLEAN :
          ( /\ Centroid(coord) = <<110, 170>>
            /\ PassesFilter(lbl, cf)
            /\ Observe(7, lbl, coord, cf, db_ok, csv_ok) )
          => /\ LINE_START = <<100, 180>> /\ LINE_END = <<700, 50>>
             /\ crossed_line(<<90, 190>>, <<110, 170>>, LINE_START, LINE_END)
             /\ counted_ids' = counted_ids \cup {7}
             /\ attempts' = Append(attempts, 7)
             /\ db_ok => db_rows' = Append(db_rows,
                              Row(map_vehicle_class(lbl), 7, current_location))
             /\ csv_ok => csv_rows' = Append(csv_rows,
                              Row(map_vehicle_class(lbl), 7, current_location))
             /\ ~db_ok => db_rows' = db_rows
             /\ ~csv_ok => csv_rows' = csv_rows]_vars

\* the second processed frame moved id 7 from (90,190) to (110,170) and the one
\* event of the run is the car with id 7
C7_Witness ==
    /\ frame_count = 2 * FRAME_SKIP
    /\ pc = "batch"
    /\ object_memory[7] = <<110, 170>>
    /\ counted_ids = {7}
    /\ attempts = <<7>>
    /\ Len(csv_rows) = 1
    /\ csv_rows[1].vehicle_id = 7
    /\ csv_rows[1].vehicle_type = "car"
    /\ db_rows = csv_rows

\* the filter as the specification states it
SpecFilter(lbl, cf) == lbl \in RECOGNIZED /\ cf > CONFIDENCE_THRESHOLD

\* C8: the iteration for a box whose label is not recognized or whose confidence
\* does not exceed CONFIDENCE_THRESHOLD changes neither object_memory nor
\* counted_ids nor the counters nor the sinks.
C8_FilteredObservationNoEffect ==
    [][\A box_id \in Ids, lbl \in Labels, coord \in BBoxes, cf \in Confs,
          db_ok \in BOOLEAN, csv_ok \in BOOLEAN :
          ( /\ ~SpecFilter(lbl, cf)
            /\ Observe(box_id, lbl, coord, cf, db_ok, csv_ok) )
          => UNCHANGED engine_vars]_vars

\* C9: the three counters add up to the number of events written so far.
C9_CountersMatchEvents ==
    count_cars + count_bikes + count_trucks = Len(csv_rows)

\* C10: while a frame's boxes are processed, every row written since the batch
\* started carries the location held when the batch started.
C10_BatchLocation ==
    pc = "batch" =>
        /\ \A i \in (batch.csv_mark + 1)..Len(csv_rows) :
              csv_rows[i].location_id = batch.location
        /\ \A i \in (batch.db_mark + 1)..Len(db_rows) :
              db_rows[i].location_id = batch.location

\* two events written in one batch during which the dashboard rewrote the file
\* to a value other than the one the batch started with
C10_Witness ==
    /\ pc = "batch"
    /\ Len(csv_rows) = batch.csv_mark + 2
    /\ Len(db_rows) = batch.db_mark + 2
    /\ batch.rewritten
    /\ location_file \in LOCATIONS
    /\ location_file # batch.location

\* C11: no failure of a sink while an event is recorded, of the INSERT or of the
\* CSV row, ends the loop: the loop is never left through an exception.
C11_SinkFailureContained ==
    pc # "crashed"

\* the loop has been left: through the break of line 211 or through an exception
Stopped == pc \in {"done", "crashed"}

\* C12: once the frame source is broken, so that cap.read() fails after every
\* restart, the process eventually stops.
C12_RestartFailureStops ==
    (source = "broken") ~> Stopped

\* C13: once the operator holds ESC, and the frames the loop still has to read
\* are within the model's frame bound, the loop eventually ends, whatever the
\* frame source does: through the break of line 211 (the cleanup follows it),
\* or, at the least, at all.
C13_EscStopsLoop ==
    (esc_held /\ frame_count + FRAME_SKIP <= MaxFrames) ~> Stopped

\* C14: frame_count goes up by one with every frame read and with nothing
\* else, a restart of the clip leaves it as it is, and a frame read is handed
\* to the tracker exactly when frame_count, counting it, is a multiple of
\* FRAME_SKIP.
C14_FrameSkipSampling ==
    [][ /\ frame_count' \in {frame_count, frame_count + 1}
        /\ (cap_pos' = cap_pos + 1) <=> (frame_count' = frame_count + 1)
        /\ (frame_count' = frame_count + 1)
              => ((pc' = "batch") <=> (frame_count' % FRAME_SKIP = 0))
        /\ (pc = "read" /\ pc' = "batch") => frame_count' = frame_count + 1 ]_vars

\* the second admitted frame, read after the clip was restarted
C14_Witness ==
    /\ pc = "batch"
    /\ frame_count = 2 * FRAME_SKIP
    /\ frame_count > VideoLen
    /\ cap_pos < frame_count

\* the first position of an id in the order the events were handed to the sinks
FirstAttempt(id) == CHOOSE i \in AttemptsOf(id) : \A j \in AttemptsOf(id) : i <= j
\* the rows of a sink lie in the order their events were produced
InEventOrder(rows) ==
    \A i, j \in 1..Len(rows) :
        i < j => /\ AttemptsOf(rows[i].vehicle_id) # {}
                 /\ AttemptsOf(rows[j].vehicle_id) # {}
                 /\ FirstAttempt(rows[i].vehicle_id) < FirstAttempt(rows[j].vehicle_id)

\* C15: the rows of the database and the rows of the CSV file lie in the order
\* in which their events were produced, within a frame's batch and across
\* frames.
C15_OrderPreserved ==
    InEventOrder(db_rows) /\ InEventOrder(csv_rows)

\* two events of one batch, id 9 iterated before id 7, both in both sinks
C15_Witness ==
    /\ pc = "batch"
    /\ attempts = <<9, 7>>
    /\ Len(csv_rows) = batch.csv_mark + 2
    /\ Len(db_rows) = batch.db_mark + 2
    /\ csv_rows[1].vehicle_id = 9 /\ csv_rows[2].vehicle_id = 7
    /\ db_rows[1].vehicle_id = 9 /\ db_rows[2].vehicle_id = 7

\* C16: map_vehicle_class gives back each of car, motorcycle, truck and bus
\* unchanged, and applying it twice to one of them gives what applying it once
\* gives.
C16_MapIdentityIdempotent ==
    (cls.state = "done" /\ cls.label \in RECOGNIZED)
    => /\ cls.once = cls.label
       /\ cls.twice = cls.once

\* the mapping applied to motorcycle
C16_Witness ==
    /\ cls.state = "done"
    /\ cls.label = "motorcycle"
    /\ cls.once = "motorcycle"
    /\ cls.twice = "motorcycle"

\* C17: the iteration for a box that passes the filter leaves object_memory[id]
\* equal to the box's centroid, whether or not the crossing test is true and
\* whether or not the id is counted already, and it hands an event to the sinks
\* exactly when the crossing test from object_memory[id] as it was before the
\* iteration (the centroid itself without an entry) is true and the id is not
\* counted.
C17_MemoryTracksLatest ==
    [][(pc = "batch" /\ todo' # todo)
       => \A box_id \in todo \ todo', lbl \in Labels, coord \in BBoxes, cf \in Confs,
             db_ok \in BOOLEAN, csv_ok \in BOOLEAN :
          (PassesFilter(lbl, cf) /\ Observe(box_id, lbl, coord, cf, db_ok, csv_ok))
          => LET center == Centroid(coord)
                 prev == IF object_memory[box_id] = NoEntry
                         THEN center ELSE object_memory[box_id]
             IN  /\ object_memory'[box_id] = center
                 /\ (attempts' # attempts)
                      <=> ( /\ crossed_line(prev, center, LINE_START, LINE_END)
                            /\ box_id \notin counted_ids )]_vars

\* an id counted earlier whose displacement crossed the line again, remembered
\* at the centroid of that later box
C17_Witness ==
    \E id \in recrossed \cap counted_ids :
        /\ object_memory[id] = <<400, 200>>
        /\ Cardinality(AttemptsOf(id)) = 1

\* the ids that have an object_memory entry
MemoryKeys == {i \in Ids : object_memory[i] # NoEntry}
MemoryKeysAfter == {i \in Ids : object_memory'[i] # NoEntry}
SinkIds == {attempts[i] : i \in 1..Len(attempts)}
SinkIdsAfter == {attempts'[i] : i \in 1..Len(attempts')}

\* C18: counted_ids is a subset of the keys of object_memory, the ids handed to
\* the sinks are the ids of counted_ids, and no step, a restart of the clip
\* included, takes an element out of counted_ids or a key out of object_memory.
C18_EngineState ==
    [][ /\ counted_ids \subseteq MemoryKeys
        /\ counted_ids' \subseteq MemoryKeysAfter
        /\ SinkIds = counted_ids
        /\ SinkIdsAfter = counted_ids'
        /\ counted_ids \subseteq counted_ids'
        /\ MemoryKeys \subseteq MemoryKeysAfter ]_vars

\* the clip has just been restarted for the second time with both ids counted
C18_Witness ==
    /\ pc = "read"
    /\ cap_pos = 0
    /\ frame_count = 2 * VideoLen
    /\ counted_ids = Ids
    /\ MemoryKeys = Ids

\* no three of the four points lie on one line
GeneralPosition(S, E, P, Q) ==
    /\ Area2(S, E, P) # 0
    /\ Area2(S, E, Q) # 0
    /\ Area2(P, Q, S) # 0
    /\ Area2(P, Q, E) # 0

\* the closed segments P Q and S E of two lines that are not parallel have a
\* common point: P + t (Q - P) = S + u (E - S) with t = tn / d and u = un / d
\* both in [0, 1]
SegmentsMeet(S, E, P, Q) ==
    LET d == (Q[1] - P[1]) * (E[2] - S[2]) - (Q[2] - P[2]) * (E[1] - S[1])
        tn == (S[1] - P[1]) * (E[2] - S[2]) - (S[2] - P[2]) * (E[1] - S[1])
        un == (S[1] - P[1]) * (Q[2] - P[2]) - (S[2] - P[2]) * (Q[1] - P[1])
    IN  /\ d # 0
        /\ IF d > 0
           THEN 0 <= tn /\ tn <= d /\ 0 <= un /\ un <= d
           ELSE d <= tn /\ tn <= 0 /\ d <= un /\ un <= 0

\* C19: for points S, E, P, Q of the grid no three of which lie on one line,
\* crossed_line(P, Q, S, E) is true exactly when the closed segments P Q and
\* S E have a common point.
C19_GeneralPosition ==
    (geom.state = "done" /\ GeneralPosition(geom.S, geom.E, geom.P, geom.Q))
    => (geom.fwd <=> SegmentsMeet(geom.S, geom.E, geom.P, geom.Q))

\* a displacement that crosses the gate, the four points in general position
C19_Witness ==
    /\ geom.state = "done"
    /\ GeneralPosition(geom.S, geom.E, geom.P, geom.Q)
    /\ SegmentsMeet(geom.S, geom.E, geom.P, geom.Q)
    /\ geom.fwd

\* C20: while the dashboard is between opening the location file for writing
\* and writing the value Y, and the back end holds a value X the dashboard
\* wrote before, a frame admitted with or without a poll of the file, the read
\* not raising, leaves the back end with X or Y and no other value.
C20_NoThirdLocation ==
    [][(current_location \in LOCATIONS /\ writer # "idle")
       => \A due \in BOOLEAN, visible \in SUBSET Ids :
             Admit(due, FALSE, visible)
             => current_location' \in {current_location, writer}]_vars

====
